---- MODULE Spec2Model ----
(***************************************************************************)
(* IoT frost prediction: the Sense-Think-Act server (src/sta/staserver.js) *)
(* and the batch builder of the inference server                          *)
(* (src/inferencelgbm/frost-lgbm-wasm-server.js).                         *)
(*                                                                         *)
(* Conventions.  A JavaScript value that may be null is a record with a   *)
(* flag; a JavaScript number that may be NaN is a record [nan, v].        *)
(* Probabilities are integers in percent (0.8 is 80).  Instants of the    *)
(* decision server are counted in units of fifteen years from the epoch,  *)
(* so that 2000-01-01 is instant 2.                                        *)
(***************************************************************************)
EXTENDS Integers, Sequences, FiniteSets, TLC

\* ---------------------------------------------------------------- bounds
MaxRows   == 3      \* rows in one scorer response
MaxCycles == 2      \* poll cycles started (the boot cycle included)
MaxConns  == 2      \* observer connections ever opened
MaxT      == 3      \* latest instant a row's time may name

\* ------------------------------------------------------- program constants
FROST_THRESHOLD == 80          \* CFG.FROST_THRESHOLD, in percent
DateParseZero   == 2           \* Date.parse("0") in V8: 2000-01-01 local time

\* ----------------------------------------------------- JavaScript values
NaN    == [nan |-> TRUE,  v |-> 0]
Num(v) == [nan |-> FALSE, v |-> v]
\* a > b on numbers: false as soon as one side is NaN
Gt(a, b) == ~a.nan /\ ~b.nan /\ a.v > b.v

\* a JSON value as the poll cycle finds it in a row's field
JNull      == [j |-> "null",      v |-> 0]
JUndefined == [j |-> "undefined", v |-> 0]
JText      == [j |-> "string",    v |-> 0]     \* a string that is no number
JNum(v)    == [j |-> "number",    v |-> v]

\* strings that name a time: '', an unparsable string, an ISO instant
EmptyStr == [s |-> "empty",   ms |-> 0]
Garbage  == [s |-> "garbage", ms |-> 0]
Iso(t)   == [s |-> "iso",     ms |-> t]

\* Number(x)
ToNumber(x) ==
  CASE x.j = "null"      -> Num(0)
    [] x.j = "undefined" -> NaN
    [] x.j = "string"    -> NaN
    [] x.j = "number"    -> Num(x.v)

\* Date.parse(s) of a string
DateParse(s) ==
  CASE s.s = "iso"     -> Num(s.ms)
    [] s.s = "garbage" -> NaN
    [] s.s = "empty"   -> NaN

\* toIso(t): the ISO string of instant t, or null before the first run
NoRun    == [null |-> TRUE,  ms |-> 0]
toIso(t) == [null |-> FALSE, ms |-> t]

\* STATE.error: null or a message
NoError    == [null |-> TRUE,  text |-> ""]
ErrorOf(m) == [null |-> FALSE, text |-> m]

\* ------------------------------------------------------------- helpers
safeNumber(x) ==
  LET n == ToNumber(x)
  IN  IF ~n.nan THEN JNum(n.v) ELSE JNull

\* String(a).localeCompare(String(b)) on the sensor names of the model
CollationKey(s) ==
  CASE s = "s1"      -> 1
    [] s = "s2"      -> 2
    [] s = "unknown" -> 3
localeCompare(a, b) ==
  IF CollationKey(a) < CollationKey(b) THEN -1
  ELSE IF CollationKey(a) > CollationKey(b) THEN 1 ELSE 0

\* ---------------------------------------------------------------- state
VARIABLES
  Snapshot,       \* STATE, the shared snapshot (STATE is a reserved word)
  cycle,          \* each poll cycle: "idle", "polling", "published", "rejected"
  now,            \* Date.now(), in poll intervals since the start
  process,        \* "up", or "down" after an unhandled rejection
  clients,        \* the Set of registered observers, in insertion order
  transport,      \* each connection: "none", "open", "closed", "reported", "aborted"
  wire,           \* the events each observer has received
  rows,           \* pollPredictor's local rows of the last cycle that parsed
  items,          \* pollPredictor's local items (before deduplication)
  lastResp,       \* the response the last settled cycle got
  lastCycle,      \* the cycle that settled last (0: none)
  prevItems,      \* STATE.items before the last settled cycle
  pubs,           \* broadcasts made by each cycle
  pubCount,       \* broadcasts made in all
  lastBroadcast,  \* the last call of broadcast()
  closedAt,       \* the number of broadcasts made when each socket closed
  lastRead,       \* what the last status query or page request was answered
  predict,        \* the /predict handler: "idle", "fetched", "scoring", "responded"
  rawItems,       \* the documents fetchTimeSeries returned
  forward,        \* the request's mode
  horizonH,       \* Number(req.query.horizonHours || CFG.DEFAULT_FWD_HORIZON_H)
  batch,          \* what buildBatches returned: the tensor and metas
  scored,         \* the output tensor the scoring adapter reads
  runOutput,      \* what session.run resolved with: the declared outputs in order
  response,       \* the response of the last request
  FEATURE_NAMES,  \* the feature order boot() leaves
  SCALER,         \* the scaler boot() leaves, or null
  scalerFile      \* the scaler file boot() read

staVars == <<Snapshot, cycle, now, process, clients, transport, wire, rows, items,
             lastResp, lastCycle, prevItems, pubs, pubCount, lastBroadcast, closedAt,
             lastRead>>
batchVars == <<predict, rawItems, forward, horizonH, batch, scored, runOutput, response,
               FEATURE_NAMES, SCALER, scalerFile>>

vars == <<Snapshot, cycle, now, process, clients, transport, wire, rows, items,
          lastResp, lastCycle, prevItems, pubs, pubCount, lastBroadcast, closedAt,
          lastRead,
          predict, rawItems, forward, horizonH, batch, scored, runOutput, response,
          FEATURE_NAMES, SCALER, scalerFile>>

\* the prediction server as its module is loaded, before boot()
DEFAULT_FEATURES_36 ==
  << "temperature", "humidity", "dewpoint", "td_spread",
     "temp_mean_3h", "temp_min_3h", "temp_max_3h",
     "hum_mean_3h",  "hum_min_3h",  "hum_max_3h",
     "temp_mean_6h", "temp_min_6h", "temp_max_6h",
     "hum_mean_6h",  "hum_min_6h",  "hum_max_6h",
     "temp_mean_12h", "temp_min_12h", "temp_max_12h",
     "hum_mean_12h",  "hum_min_12h",  "hum_max_12h",
     "temp_lag_1h", "temp_lag_3h", "temp_lag_6h",
     "hum_lag_1h", "hum_lag_3h", "hum_lag_6h",
     "hr_bin_0", "hr_bin_1", "hr_bin_2", "hr_bin_3" >>

\* a file that is absent, or no JSON
NoFile == [k |-> "absent", names |-> <<>>, mean |-> <<>>, scale |-> <<>>]
NoScaler   == [null |-> TRUE, mean |-> <<>>, scale |-> <<>>]
NoBatch    == [threw |-> FALSE, dims |-> <<0, 0>>, data |-> <<>>, metas |-> <<>>]
Threw      == [threw |-> TRUE, dims |-> <<0, 0>>, data |-> <<>>, metas |-> <<>>]
NoTensor   == [dims |-> <<>>, data |-> <<>>]
NoResponse == [status |-> 0]

Cycles == 1..MaxCycles
Conns  == 1..MaxConns

\* --------------------------------------------------------------- inputs
\* a row of json.points: an object with the three fields, or null
Row(n, t, sc) == [nul |-> FALSE, sensorName |-> n, time |-> t, score |-> sc]
NullRow       == [nul |-> TRUE,  sensorName |-> "", time |-> EmptyStr, score |-> JNull]

SeqsUpTo(S, n) == UNION {[1..k -> S] : k \in 0..n}

\* What the call of the scoring endpoint ends in:
\*   "reject"   fetch() or r.text() rejects with an Error whose message is msg
\*   "status"   a response with r.ok false
\*   "notjson"  a body JSON.parse rejects
\*   "null"     the body null: valid JSON, and no object
\*   "nopoints" valid JSON, not null, whose points is no array ({} or 5)
\*   "points"   an object whose points is the array given
Resp(k, m, ps) == [kind |-> k, msg |-> m, points |-> ps]
Failures  == {Resp("reject", "fetch failed", <<>>), Resp("reject", "", <<>>),
              Resp("status", "", <<>>), Resp("notjson", "", <<>>)}
NoRows    == {Resp("null", "", <<>>), Resp("nopoints", "", <<>>)}
ResponsesOver(R) ==
  Failures \cup NoRows \cup {Resp("points", "", ps) : ps \in SeqsUpTo(R, MaxRows)}

\* the rows of the specification of the decision engine: every sensor name with
\* every time, every score, and the row that is null
SensorNames == {"s1", "s2", ""}
Times       == {EmptyStr, Garbage} \cup {Iso(t) : t \in 0..MaxT}
Scores      == {JNull, JUndefined, JNum(FROST_THRESHOLD - 1), JNum(FROST_THRESHOLD)}
AllRows     == {Row(n, t, JNum(FROST_THRESHOLD)) : n \in SensorNames, t \in Times}
                 \cup {Row("s1", Iso(1), sc) : sc \in Scores}
                 \cup {NullRow}
\* the responses of the specification of the poll cycles: every failure, every
\* body without rows, and one or two rows
PollResponses ==
  Failures \cup NoRows \cup
  {Resp("points", "", <<Row("s1", Iso(1), JNum(FROST_THRESHOLD))>>),
   Resp("points", "", <<Row("", Iso(1), JNum(FROST_THRESHOLD)),
                        Row("s1", Iso(1), JUndefined)>>)}
\* the responses of the specification of the hub: a failure, a body that is null,
\* and a row
HubResponses ==
  {Resp("reject", "fetch failed", <<>>), Resp("null", "", <<>>),
   Resp("points", "", <<Row("s1", Iso(1), JNum(FROST_THRESHOLD))>>)}

\* ------------------------------------------------------- pollPredictor
\* the Error the try block throws, as [name, message]
Thrown(resp) ==
  CASE resp.kind = "reject"  -> [name |-> "TypeError",   message |-> resp.msg]
    [] resp.kind = "status"  -> [name |-> "Error",       message |-> "Predictor 500: busy"]
    [] resp.kind = "notjson" -> [name |-> "SyntaxError", message |-> "Unexpected token <"]

\* e?.message || String(e)
errorText(e) == IF e.message # "" THEN e.message ELSE e.name

\* rows.map(p => ...): the Decision of one row (its reason text left out)
decisionOf(score) ==
  LET frost == score.j # "null" /\ score.v >= FROST_THRESHOLD
  IN  IF score.j = "null" THEN "UNKNOWN"
      ELSE IF frost THEN "TAKE ACTION" ELSE "NO ACTION"

toDecision(p) ==
  LET score == safeNumber(p.score)
  IN  [sensorName |-> IF p.sensorName = "" THEN "unknown" ELSE p.sensorName,
       time       |-> p.time,                     \* p.time || '': EmptyStr when falsy
       score      |-> score,
       decision   |-> decisionOf(score)]

mapRows(ps) == [i \in 1..Len(ps) |-> toDecision(ps[i])]

\* latestBySensor: a Map, kept as the sequence of its values in insertion order
MapIndex(m, key) ==
  IF \E i \in 1..Len(m) : m[i].sensorName = key
  THEN CHOOSE i \in 1..Len(m) : m[i].sensorName = key
  ELSE 0

\* Date.parse(prev.time || 0): an empty time makes it Date.parse("0")
DateParsePrev(t) == IF t = EmptyStr THEN Num(DateParseZero) ELSE DateParse(t)

keepLatest(m, it) ==
  LET i   == MapIndex(m, it.sensorName)
      tms == IF it.time # EmptyStr THEN DateParse(it.time) ELSE Num(0)
  IN  IF i = 0 THEN Append(m, it)
      ELSE IF Gt(tms, DateParsePrev(m[i].time)) THEN [m EXCEPT ![i] = it]
      ELSE m

RECURSIVE latestFrom(_, _, _)
latestFrom(its, i, m) ==
  IF i > Len(its) THEN m ELSE latestFrom(its, i + 1, keepLatest(m, its[i]))
latestBySensor(its) == latestFrom(its, 1, <<>>)

\* .sort((a,b) => String(a.sensorName).localeCompare(String(b.sensorName)))
RECURSIVE insertSorted(_, _)
insertSorted(sorted, it) ==
  IF sorted = <<>> THEN <<it>>
  ELSE IF localeCompare(it.sensorName, sorted[Len(sorted)].sensorName) >= 0
       THEN Append(sorted, it)
       ELSE Append(insertSorted(SubSeq(sorted, 1, Len(sorted) - 1), it),
                   sorted[Len(sorted)])
RECURSIVE sortFrom(_, _, _)
sortFrom(its, i, acc) ==
  IF i > Len(its) THEN acc ELSE sortFrom(its, i + 1, insertSorted(acc, its[i]))
unsorted(its) == its
sortBySensor(its) == sortFrom(its, 1, <<>>)

\* the catch block's items
keepItems(old) == old
failureItems(old) == <<>>

\* ------------------------------------------------------------- the hub
CFG_FORWARD   == TRUE           \* CFG.FORWARD
HORIZON_HOURS == 8              \* CFG.HORIZON_HOURS
ssePayload(S) ==
  [lastRunAt |-> S.lastRunAt, forward |-> S.forward, horizonHours |-> S.horizonHours,
   threshold |-> FROST_THRESHOLD, error |-> S.error, items |-> S.items]

Range(f) == {f[i] : i \in DOMAIN f}

\* broadcast(): the observers a write is attempted to, in the Set's order, when
\* the writes to the observers in F throw; escaped: an exception left broadcast()
RECURSIVE broadcastNoCatchFrom(_, _, _)
broadcastNoCatchFrom(cs, F, i) ==
  IF i > Len(cs) THEN [targets |-> <<>>, escaped |-> FALSE]
  ELSE IF cs[i] \in F THEN [targets |-> <<cs[i]>>, escaped |-> TRUE]
  ELSE LET rest == broadcastNoCatchFrom(cs, F, i + 1)
       IN  [targets |-> <<cs[i]>> \o rest.targets, escaped |-> rest.escaped]
broadcastNoCatch(cs, F) == broadcastNoCatchFrom(cs, F, 1)

RECURSIVE broadcastFrom(_, _, _)
broadcastFrom(cs, F, i) ==
  IF i > Len(cs) THEN [targets |-> <<>>, escaped |-> FALSE]
  ELSE LET rest == broadcastFrom(cs, F, i + 1)       \* try { write } catch { }
       IN  [targets |-> <<cs[i]>> \o rest.targets, escaped |-> rest.escaped]
broadcast(cs, F) == broadcastFrom(cs, F, 1)

\* the Set of observers after broadcast() met the failed writes F
dropFailed(cs, F) == SelectSeq(cs, LAMBDA k : k \notin F)
clientsAfterBroadcast(cs, F) == cs

\* c.res.write(payload) for each target in turn: an event reaches the observer
\* when the write does not throw and its transport is open
RECURSIVE deliverFrom(_, _, _, _, _)
deliverFrom(w, targets, i, F, ev) ==
  IF i > Len(targets) THEN w
  ELSE LET k == targets[i]
       IN  deliverFrom(IF k \notin F /\ transport[k] = "open"
                       THEN [w EXCEPT ![k] = Append(@, ev)] ELSE w,
                       targets, i + 1, F, ev)

\* the first event of a connection
connectEventsAsUpdate(payload, n) == <<[event |-> "update", data |-> payload, pub |-> n]>>
connectEvents(payload, n) == <<[event |-> "snapshot", data |-> payload, pub |-> n]>>

\* res.json({...}) of /status, title and lookbackHours left out
statusBody(S) ==
  [lastRunAt |-> S.lastRunAt, forward |-> S.forward, horizonHours |-> S.horizonHours,
   threshold |-> FROST_THRESHOLD, count |-> Len(S.items), error |-> S.error,
   items |-> S.items]
\* renderPage(state): what the page shows of the state
renderPage(S) ==
  [rows |-> S.items,
   message |-> IF Len(S.items) > 0 THEN ""
               ELSE IF ~S.error.null /\ S.error.text # "" THEN S.error.text
               ELSE "No data yet",
   forwardTxt |-> IF S.forward THEN <<"Yes", S.horizonHours>> ELSE <<"No">>,
   lastRun |-> S.lastRunAt,
   err |-> IF ~S.error.null THEN S.error.text ELSE ""]
NoRead == [kind |-> "none", pub |-> 0, body |-> <<>>]

\* --------------------------------------------------------------- actions
noBootCycle == [c \in Cycles |-> "idle"]
\* pollPredictor(); // run once at boot
cyclesAtBoot == [c \in Cycles |-> IF c = 1 THEN "polling" ELSE "idle"]

InitSta ==
  /\ Snapshot = [lastRunAt |-> NoRun, forward |-> CFG_FORWARD,
                 horizonHours |-> HORIZON_HOURS, items |-> <<>>, error |-> NoError]
  /\ cycle = cyclesAtBoot
  /\ now = 0
  /\ process = "up"
  /\ clients = <<>>
  /\ transport = [k \in Conns |-> "none"]
  /\ wire = [k \in Conns |-> <<>>]
  /\ rows = <<>>
  /\ items = <<>>
  /\ lastResp = Resp("none", "", <<>>)
  /\ lastCycle = 0
  /\ prevItems = <<>>
  /\ pubs = [c \in Cycles |-> 0]
  /\ pubCount = 0
  /\ lastBroadcast = [n |-> 0, by |-> 0, registered |-> <<>>, targets |-> <<>>,
                      threw |-> {}, payload |-> ssePayload(Snapshot)]
  /\ closedAt = [k \in Conns |-> 0]
  /\ lastRead = NoRead
  /\ predict = "boot"
  /\ FEATURE_NAMES = DEFAULT_FEATURES_36
  /\ SCALER = NoScaler
  /\ scalerFile = NoFile
  /\ rawItems = <<>>
  /\ forward = FALSE
  /\ horizonH = Num(0)
  /\ batch = NoBatch
  /\ scored = NoTensor
  /\ runOutput = <<>>
  /\ response = NoResponse

\* setInterval(pollPredictor, ...): one more interval has passed and the timer
\* starts the next cycle, which runs to its await of fetch()
IntervalTick(c) ==
  /\ process = "up"
  /\ cycle[c] = "idle"
  /\ \A d \in Cycles : d < c => cycle[d] # "idle"
  /\ cycle' = [cycle EXCEPT ![c] = "polling"]
  /\ now' = now + 1
  /\ UNCHANGED <<Snapshot, process, clients, transport, wire, rows, items,
                 lastResp, lastCycle, prevItems, pubs, pubCount, lastBroadcast, closedAt,
                 lastRead>>
  /\ UNCHANGED batchVars

\* a completion that leaves STATE alone when a later cycle has published
PublishNewestOnly(c, S, F) ==
  LET b == broadcast(clients, F)
      n == pubCount + 1
      ev == [event |-> "update", data |-> ssePayload(S), pub |-> n]
  IN  /\ Snapshot' = IF c < lastBroadcast.by THEN Snapshot ELSE S
      /\ wire' = deliverFrom(wire, b.targets, 1, F, ev)
      /\ clients' = clientsAfterBroadcast(clients, F)
      /\ pubCount' = n
      /\ pubs' = [pubs EXCEPT ![c] = @ + 1]
      /\ lastBroadcast' = [n |-> n, by |-> c, registered |-> clients,
                           targets |-> b.targets, threw |-> F,
                           payload |-> ssePayload(S)]
      /\ cycle' = [cycle EXCEPT ![c] = IF b.escaped THEN "rejected" ELSE "published"]
      /\ process' = process

\* a completion that broadcasts before it has assigned STATE.items
PublishItemsLater(c, S, F) ==
  LET b == broadcast(clients, F)
      n == pubCount + 1
      ev == [event |-> "update", data |-> ssePayload(S), pub |-> n]
  IN  /\ Snapshot' = [S EXCEPT !.items = Snapshot.items]
      /\ wire' = deliverFrom(wire, b.targets, 1, F, ev)
      /\ clients' = clientsAfterBroadcast(clients, F)
      /\ pubCount' = n
      /\ pubs' = [pubs EXCEPT ![c] = @ + 1]
      /\ lastBroadcast' = [n |-> n, by |-> c, registered |-> clients,
                           targets |-> b.targets, threw |-> F,
                           payload |-> ssePayload(S)]
      /\ cycle' = [cycle EXCEPT ![c] = IF b.escaped THEN "rejected" ELSE "published"]
      /\ process' = process

\* STATE = S; broadcast(): the tail of both branches of pollPredictor
Publish(c, S, F) ==
  LET b == broadcast(clients, F)
      n == pubCount + 1
      ev == [event |-> "update", data |-> ssePayload(S), pub |-> n]
  IN  /\ Snapshot' = S
      /\ wire' = deliverFrom(wire, b.targets, 1, F, ev)
      /\ clients' = clientsAfterBroadcast(clients, F)
      /\ pubCount' = n
      /\ pubs' = [pubs EXCEPT ![c] = @ + 1]
      /\ lastBroadcast' = [n |-> n, by |-> c, registered |-> clients,
                           targets |-> b.targets, threw |-> F,
                           payload |-> ssePayload(S)]
      /\ cycle' = [cycle EXCEPT ![c] = IF b.escaped THEN "rejected" ELSE "published"]
      /\ process' = process

\* pollPredictor after its awaits: the call of the scoring endpoint ended in
\* resp, and the writes to the observers in F throw
FetchSettles(c, resp, F) ==
  /\ process = "up"
  /\ cycle[c] = "polling"
  /\ lastResp' = resp
  /\ lastCycle' = c
  /\ prevItems' = Snapshot.items
  /\ UNCHANGED <<now, transport, closedAt, lastRead>>
  /\ UNCHANGED batchVars
  /\ IF resp.kind \in {"reject", "status", "notjson"}
     THEN \* catch (e)
          /\ Publish(c, [Snapshot EXCEPT !.lastRunAt = toIso(now),
                                         !.error = ErrorOf(errorText(Thrown(resp))),
                                         !.items = failureItems(Snapshot.items)], F)
          /\ UNCHANGED <<rows, items>>
     ELSE IF resp.kind = "null" \/ \E i \in 1..Len(resp.points) : resp.points[i].nul
     THEN \* json.points, or p.score, throws a TypeError outside the try block:
          \* the promise of pollPredictor rejects and nobody handles it
          /\ cycle' = [cycle EXCEPT ![c] = "rejected"]
          /\ process' \in {"up", "down"}
          /\ F = {}
          /\ UNCHANGED <<Snapshot, clients, wire, rows, items, pubs, pubCount,
                         lastBroadcast>>
     ELSE /\ rows' = resp.points        \* [] when json.points is no array
          /\ items' = mapRows(resp.points)
          /\ Publish(c, [Snapshot EXCEPT !.lastRunAt = toIso(now),
                                         !.error = NoError,
                                         !.items = sortBySensor(latestBySensor(items'))], F)

\* app.get('/events'): the handler of a new connection, run to its end
Connect(k, threw) ==
  /\ process = "up"
  /\ transport[k] = "none"
  /\ \A j \in Conns : j < k => transport[j] # "none"
  /\ IF threw
     THEN \* res.write throws: the handler ends before it registers the observer
          /\ transport' = [transport EXCEPT ![k] = "aborted"]
          /\ UNCHANGED <<wire, clients>>
     ELSE /\ wire' = [wire EXCEPT ![k] = connectEvents(ssePayload(Snapshot), pubCount)]
          /\ clients' = Append(clients, k)
          /\ transport' = [transport EXCEPT ![k] = "open"]
  /\ UNCHANGED <<Snapshot, cycle, now, process, rows, items, lastResp, lastCycle,
                 prevItems, pubs, pubCount, lastBroadcast, closedAt, lastRead>>
  /\ UNCHANGED batchVars

\* the observer's socket closes; the 'close' event is not dispatched yet
SocketCloses(k) ==
  /\ process = "up"
  /\ transport[k] = "open"
  /\ transport' = [transport EXCEPT ![k] = "closed"]
  /\ closedAt' = [closedAt EXCEPT ![k] = pubCount]
  /\ UNCHANGED <<Snapshot, cycle, now, process, clients, wire, rows, items,
                 lastResp, lastCycle, prevItems, pubs, pubCount, lastBroadcast,
                 lastRead>>
  /\ UNCHANGED batchVars

\* req.on('close', () => clients.delete(client))
OnClose(k) ==
  /\ process = "up"
  /\ transport[k] = "closed"
  /\ transport' = [transport EXCEPT ![k] = "reported"]
  /\ clients' = SelectSeq(clients, LAMBDA j : j # k)
  /\ UNCHANGED <<Snapshot, cycle, now, process, wire, rows, items, lastResp,
                 lastCycle, prevItems, pubs, pubCount, lastBroadcast, closedAt,
                 lastRead>>
  /\ UNCHANGED batchVars

\* a status handler that stamps STATE.lastRunAt
StatusQueryStamps ==
  /\ process = "up"
  /\ lastRead' = [kind |-> "status", pub |-> pubCount, body |-> statusBody(Snapshot)]
  /\ Snapshot' = [Snapshot EXCEPT !.lastRunAt = toIso(now + 1)]
  /\ UNCHANGED <<cycle, now, process, clients, transport, wire, rows, items,
                 lastResp, lastCycle, prevItems, pubs, pubCount, lastBroadcast, closedAt>>
  /\ UNCHANGED batchVars

\* app.get('/status')
StatusQuery ==
  /\ process = "up"
  /\ lastRead' = [kind |-> "status", pub |-> pubCount, body |-> statusBody(Snapshot)]
  /\ UNCHANGED <<Snapshot, cycle, now, process, clients, transport, wire, rows, items,
                 lastResp, lastCycle, prevItems, pubs, pubCount, lastBroadcast, closedAt>>
  /\ UNCHANGED batchVars

\* app.get('/')
PageRequest ==
  /\ process = "up"
  /\ lastRead' = [kind |-> "page", pub |-> pubCount, body |-> renderPage(Snapshot)]
  /\ UNCHANGED <<Snapshot, cycle, now, process, clients, transport, wire, rows, items,
                 lastResp, lastCycle, prevItems, pubs, pubCount, lastBroadcast, closedAt>>
  /\ UNCHANGED batchVars

HubActions ==
  \/ \E k \in Conns, threw \in BOOLEAN : Connect(k, threw)
  \/ \E k \in Conns : SocketCloses(k)
  \/ \E k \in Conns : OnClose(k)

\* the decision server with its observers, each cycle settled within the interval
Next ==
  \/ \E c \in Cycles : IntervalTick(c) /\ \A d \in Cycles : cycle[d] # "polling"
  \/ \E c \in Cycles, resp \in HubResponses, F \in SUBSET Range(clients) :
       FetchSettles(c, resp, F)
  \/ HubActions

Spec == InitSta /\ [][Next]_vars

\* the boot cycle alone, on every response over AllRows
NextRows ==
  /\ cycle[1] = "polling"
  /\ \E resp \in ResponsesOver(AllRows) : FetchSettles(1, resp, {})

SpecRows == InitSta /\ [][NextRows]_vars

\* the poll cycles without observers, on every kind of response
NextPoll ==
  \/ \E c \in Cycles : IntervalTick(c)
  \/ \E c \in Cycles, resp \in PollResponses : FetchSettles(c, resp, {})

SpecPoll == InitSta /\ [][NextPoll]_vars

\* ------------------------------------------------------ decision engine
Settled(c)   == cycle[c] \in {"published", "rejected"}
Succeeded    == lastCycle # 0 /\ cycle[lastCycle] = "published" /\ lastResp.kind = "points"

\* the Decision the specification gives a row's probability
SpecDecision(sc) ==
  IF sc.j # "number" THEN "UNKNOWN"
  ELSE IF sc.v >= FROST_THRESHOLD THEN "TAKE ACTION" ELSE "NO ACTION"

\* the instant a time names, an empty or unparsable time taken as instant 0
TimeRank(t) == IF t.s = "iso" THEN t.ms ELSE 0

\* C1: every scored row of a cycle gets the Decision UNKNOWN when its probability
\* is null, TAKE ACTION when it is at or above the threshold, NO ACTION otherwise.
C1_DecisionByProbability ==
  Succeeded =>
    \A i \in 1..Len(rows) : items[i].decision = SpecDecision(rows[i].score)

\* C2: a failed call of the scoring endpoint ends in one publication of a Snapshot
\* with a non-empty error message and no items, whatever the items were before,
\* and the cycle does not throw.
C2_FailurePublishesError ==
  (lastCycle # 0 /\ lastResp \in Failures) =>
    /\ ~Snapshot.error.null
    /\ Snapshot.error.text # ""
    /\ Snapshot.items = <<>>
    /\ cycle[lastCycle] = "published"
    /\ pubs[lastCycle] = 1
    /\ lastBroadcast.by = lastCycle
    /\ lastBroadcast.payload = ssePayload(Snapshot)

C2_FailureAfterItems ==
  /\ lastCycle # 0
  /\ lastResp = Resp("reject", "", <<>>)
  /\ prevItems # <<>>
  /\ Snapshot.items = <<>>

\* C3: a published Snapshot holds at most one Decision per sensor, and for every
\* sensor of the rows it is a Decision with the latest time among them.
C3_OnePerSensorLatest ==
  Succeeded =>
    /\ \A i, j \in 1..Len(Snapshot.items) :
         i # j => Snapshot.items[i].sensorName # Snapshot.items[j].sensorName
    /\ \A i \in 1..Len(items) :
         \E j \in 1..Len(Snapshot.items) :
           /\ Snapshot.items[j].sensorName = items[i].sensorName
           /\ TimeRank(Snapshot.items[j].time) >= TimeRank(items[i].time)

\* C4: every cycle that has got its response has made exactly one publication,
\* and no exception has left it, whatever the response was.
C4_EveryCyclePublishesOnce ==
  \A c \in Cycles : Settled(c) => cycle[c] = "published" /\ pubs[c] = 1

\* C8: the items of the Snapshot are in ascending order of sensor id.
C8_ItemsSorted ==
  \A i \in 1..(Len(Snapshot.items) - 1) :
    localeCompare(Snapshot.items[i].sensorName, Snapshot.items[i + 1].sensorName) <= 0

C8_SortedOutOfOrderRows ==
  /\ Succeeded
  /\ Len(Snapshot.items) = 3
  /\ localeCompare(items[1].sensorName, items[2].sensorName) > 0
  /\ localeCompare(items[2].sensorName, items[3].sensorName) > 0

\* ------------------------------------------------------------- the hub
Updates(k) == {i \in 1..Len(wire[k]) : wire[k][i].event = "update"}

\* C5: the first event an observer gets is a "snapshot" event with the Snapshot
\* current when it connected; it is registered only once that event is written,
\* and every "update" event it gets is of a later publication.
C5_SnapshotFirst ==
  \A k \in Conns :
    /\ k \in Range(clients) => wire[k] # <<>>
    /\ wire[k] # <<>> =>
         /\ wire[k][1].event = "snapshot"
         /\ wire[k][1].pub = pubCount => wire[k][1].data = ssePayload(Snapshot)
         /\ \A i \in 2..Len(wire[k]) :
              wire[k][i].event = "update" /\ wire[k][i].pub > wire[k][1].pub

C5_UpdateAfterSnapshot ==
  \E k \in Conns :
    /\ Len(wire[k]) >= 2
    /\ wire[k][1].event = "snapshot"
    /\ wire[k][1].pub >= 1
    /\ wire[k][2].event = "update"

\* C6: a publication attempts one write of the new Snapshot to every observer
\* registered at that moment, in spite of the writes that throw; the Snapshot
\* stays the published one and the cycle ends published.
C6_BroadcastReachesAll ==
  lastBroadcast.n > 0 =>
    /\ lastBroadcast.targets = lastBroadcast.registered
    /\ lastBroadcast.payload = ssePayload(Snapshot)
    /\ cycle[lastBroadcast.by] = "published"
    /\ \A i \in 1..Len(lastBroadcast.registered) :
         LET k == lastBroadcast.registered[i]
         IN  (k \notin lastBroadcast.threw /\ transport[k] = "open") =>
               wire[k][Len(wire[k])] =
                 [event |-> "update", data |-> lastBroadcast.payload,
                  pub |-> lastBroadcast.n]

C6_WriteThrowsOthersServed ==
  /\ lastBroadcast.n > 0
  /\ Len(lastBroadcast.registered) = 2
  /\ lastBroadcast.registered[1] \in lastBroadcast.threw
  /\ lastBroadcast.registered[2] \notin lastBroadcast.threw
  /\ transport[lastBroadcast.registered[2]] = "open"
  /\ wire[lastBroadcast.registered[2]][Len(wire[lastBroadcast.registered[2]])].pub
       = lastBroadcast.n

\* C7: an observer is in the registry from its connection until its transport
\* reports closure, failed writes or not; no publication gives an observer two
\* "update" events, and none gives one to an observer whose socket had closed.
C7_RemovedOnCloseOnly ==
  \A k \in Conns :
    /\ k \in Range(clients) <=> transport[k] \in {"open", "closed"}
    /\ \A i, j \in 1..Len(clients) : i # j => clients[i] # clients[j]
    /\ \A i, j \in Updates(k) : i # j => wire[k][i].pub # wire[k][j].pub
    /\ transport[k] \in {"closed", "reported"} =>
         \A i \in Updates(k) : wire[k][i].pub <= closedAt[k]

C7_FailedWriteStaysRegistered ==
  \E k, j \in Conns :
    /\ k \in lastBroadcast.threw
    /\ k \in Range(clients)
    /\ transport[k] = "open"
    /\ transport[j] = "reported"
    /\ Updates(j) # {}

(***************************************************************************)
(* The inference server: buildBatches and the /predict handler.  Instants  *)
(* are milliseconds since the epoch, temperatures and humidities integers, *)
(* scores integers in percent.  A mean is the integer part of sum/cnt and  *)
(* the dew point the integer rule T - (100 - RH)/5 in place of the Magnus  *)
(* formula: the values of these two features are not what is checked.      *)
(***************************************************************************)
HourMs           == 3600000     \* 3600*1000
FORWARD_WINDOW_H == 8           \* CFG.FORWARD_WINDOW_H
DIM              == 36          \* the width of a row of the tensor

\* a number or null
NullNum == [null |-> TRUE,  v |-> 0]
N(v)    == [null |-> FALSE, v |-> v]


\* toNum(v) of a JSON value
toNum(x) ==
  IF x.j \in {"null", "undefined"} \/ ToNumber(x).nan THEN NullNum
  ELSE N(ToNumber(x).v)

dewpointC(tC, rhPct) == tC - ((100 - rhPct) \div 5)

\* hourBin4(dateIso): one of four buckets of the UTC hour
hourBin4(iso) ==
  LET h   == (iso.ms \div HourMs) % 24
      bin == h \div 6
  IN  [i \in 1..4 |-> IF i - 1 = bin THEN 1 ELSE 0]

\* a raw document: the fields the normalizer reads.  A name or a time that is
\* absent is "" or EmptyStr; ts is absent, a number that is an instant, or a
\* value that new Date() makes an Invalid Date
\* The readings of a document are its own key/value entries, in the order of
\* Object.entries, and those of its nested "object" sub-document when it has one
NoObject == [isObject |-> FALSE, entries |-> <<>>]
Obj(entries) == [isObject |-> TRUE, entries |-> entries]
DocOf(dn, sf, sid, dev, id, tf, time, iso, ts, object, root) ==
  [deviceInfoName |-> dn, sf |-> sf, sensorId |-> sid, deviceName |-> dev, id |-> id,
   tf |-> tf, time |-> time, iso |-> iso, ts |-> ts, object |-> object, root |-> Obj(root)]
\* a flat document with the keys "temperature" and "humidity"
Doc(dn, sf, sid, dev, id, tf, time, iso, ts, temp, hum) ==
  DocOf(dn, sf, sid, dev, id, tf, time, iso, ts, NoObject,
        << <<"temperature", temp>>, <<"humidity", hum>> >>)
NoTs       == [k |-> "absent",  ms |-> 0]
TsAt(t)    == [k |-> "instant", ms |-> t]
TsInvalid  == [k |-> "invalid", ms |-> 0]

Truthy(s) == s.s # "empty"

\* pickTime(doc, tf): the first truthy of doc[tf], doc.time, doc.iso and the ISO
\* string of doc.ts; toISOString() throws a RangeError on an Invalid Date
pickTime(doc) ==
  IF Truthy(doc.tf) THEN [threw |-> FALSE, val |-> doc.tf]
  ELSE IF Truthy(doc.time) THEN [threw |-> FALSE, val |-> doc.time]
  ELSE IF Truthy(doc.iso) THEN [threw |-> FALSE, val |-> doc.iso]
  ELSE IF doc.ts.k = "instant" THEN [threw |-> FALSE, val |-> Iso(doc.ts.ms)]
  ELSE IF doc.ts.k = "invalid" THEN [threw |-> TRUE, val |-> EmptyStr]
  ELSE [threw |-> FALSE, val |-> EmptyStr]          \* null

\* an identity field is absent (""), the number 0, or a name; x || ... passes
\* over the absent and the 0 alike
NumberZero == "0 (number)"
Falsy(x) == x \in {"", NumberZero}

\* pickSensor(doc, sf)
pickSensor(doc) ==
  IF ~Falsy(doc.deviceInfoName) THEN doc.deviceInfoName
  ELSE IF ~Falsy(doc.sf) THEN doc.sf
  ELSE IF ~Falsy(doc.sensorId) THEN doc.sensorId
  ELSE IF ~Falsy(doc.deviceName) THEN doc.deviceName
  ELSE IF ~Falsy(doc.id) THEN doc.id
  ELSE "unknown"

\* normKey(s): lower case, every character outside a-z0-9 removed; over the
\* key spellings of the model
normKey(s) ==
  CASE s \in {"TempC_SHT", "tempc-sht"}        -> "tempcsht"
    [] s = "TempC1"                            -> "tempc1"
    [] s = "temperature_c"                     -> "temperaturec"
    [] s \in {"temperature", "Temperature"}    -> "temperature"
    [] s = "temp_c"                            -> "tempc"
    [] s = "temp"                              -> "temp"
    [] s \in {"Hum_SHT", "HUM SHT"}            -> "humsht"
    [] s = "relative_humidity"                 -> "relativehumidity"
    [] s \in {"humidity", "Humidity"}          -> "humidity"
    [] s \in {"rh", "RH"}                      -> "rh"
    [] OTHER                                   -> s

\* getCI(obj, key): the value of the first entry whose normalized key is the
\* normalized name; undefined for a non-object and when no key matches
getCI(obj, key) ==
  LET hits == {i \in 1..Len(obj.entries) : normKey(obj.entries[i][1]) = normKey(key)}
  IN  IF ~obj.isObject \/ hits = {} THEN JUndefined
      ELSE obj.entries[CHOOSE i \in hits : \A k \in hits : i <= k][2]

\* fromTopOrObject(doc, name): the nested value unless it is undefined
fromTopOrObject(doc, name) ==
  LET vObj == getCI(doc.object, name)
  IN  IF vObj # JUndefined THEN vObj ELSE getCI(doc.root, name)

TempKeys == <<"TempC_SHT", "TempC1", "temperature_c", "temperature", "temp_c", "temp">>
HumKeys  == <<"Hum_SHT", "relative_humidity", "humidity", "rh">>

\* a ?? b ?? ... over the candidate names from the i-th on: a value that is
\* null or undefined passes to the next name, the last name's value is kept
RECURSIVE coalesce(_, _, _)
coalesce(doc, names, i) ==
  LET v == fromTopOrObject(doc, names[i])
  IN  IF i = Len(names) \/ v.j \notin {"null", "undefined"} THEN v
      ELSE coalesce(doc, names, i + 1)

\* extractTempHum(doc): the values the key search finds, made numbers
extractTempHum(doc) ==
  [t |-> toNum(coalesce(doc, TempKeys, 1)), h |-> toNum(coalesce(doc, HumKeys, 1))]

\* the sample a document gives, or none: lines 332-339 of buildBatches
keeps(doc) ==
  LET tIso == pickTime(doc).val
      th   == extractTempHum(doc)
  IN  /\ Truthy(tIso)
      /\ ~(th.t.null /\ th.h.null)
      /\ ~DateParse(tIso).nan
sampleOf(doc) ==
  LET tIso == pickTime(doc).val
      th   == extractTempHum(doc)
  IN  [t |-> DateParse(tIso).v, iso |-> tIso, tC |-> th.t, hPct |-> th.h]

\* by: a Map from sensor to its samples, kept as a sequence in insertion order
ByIndex(by, sid) ==
  IF \E i \in 1..Len(by) : by[i].sensor = sid
  THEN CHOOSE i \in 1..Len(by) : by[i].sensor = sid
  ELSE 0
pushSample(by, sid, smp) ==
  LET i == ByIndex(by, sid)
  IN  IF i = 0 THEN Append(by, [sensor |-> sid, arr |-> <<smp>>])
      ELSE [by EXCEPT ![i].arr = Append(@, smp)]

RECURSIVE groupFrom(_, _, _)
groupFrom(docs, i, by) ==
  IF i > Len(docs) THEN by
  ELSE groupFrom(docs, i + 1,
                 IF keeps(docs[i])
                 THEN pushSample(by, pickSensor(docs[i]), sampleOf(docs[i]))
                 ELSE by)

\* arr.sort((a,b) => a.t - b.t): stable
RECURSIVE insertByTime(_, _)
insertByTime(sorted, smp) ==
  IF sorted = <<>> THEN <<smp>>
  ELSE IF smp.t - sorted[Len(sorted)].t >= 0 THEN Append(sorted, smp)
  ELSE Append(insertByTime(SubSeq(sorted, 1, Len(sorted) - 1), smp),
              sorted[Len(sorted)])
RECURSIVE sortByTimeFrom(_, _, _)
sortByTimeFrom(arr, i, acc) ==
  IF i > Len(arr) THEN acc ELSE sortByTimeFrom(arr, i + 1, insertByTime(acc, arr[i]))
sortByTime(arr) == sortByTimeFrom(arr, 1, <<>>)

\* ------------------------------------------ buildFeatureVectorFromWindow
RECURSIVE sliceStart(_, _, _)
sliceStart(rs, cutoff, i) ==
  IF i >= 1 /\ rs[i].t >= cutoff THEN sliceStart(rs, cutoff, i - 1) ELSE i
sliceAll(rs, h) == rs
sliceHours(rs, h) ==
  IF Len(rs) = 0 THEN <<>>
  ELSE SubSeq(rs, sliceStart(rs, rs[Len(rs)].t - h * HourMs, Len(rs)) + 1, Len(rs))

\* stats(arr, key): the running sum, count, min and max over the non-null values
RECURSIVE statsFrom(_, _, _, _)
statsFrom(arr, key, i, acc) ==
  IF i > Len(arr) THEN acc
  ELSE LET x == arr[i][key]
       IN  statsFrom(arr, key, i + 1,
             IF x.null THEN acc
             ELSE [sum |-> acc.sum + x.v, cnt |-> acc.cnt + 1,
                   min |-> IF acc.cnt = 0 \/ x.v < acc.min THEN x.v ELSE acc.min,
                   max |-> IF acc.cnt = 0 \/ x.v > acc.max THEN x.v ELSE acc.max])
stats(arr, key) ==
  LET acc == statsFrom(arr, key, 1, [sum |-> 0, cnt |-> 0, min |-> 0, max |-> 0])
  IN  IF acc.cnt = 0 THEN [mean |-> NullNum, min |-> NullNum, max |-> NullNum]
      ELSE [mean |-> N(acc.sum \div acc.cnt), min |-> N(acc.min), max |-> N(acc.max)]

RECURSIVE lagFrom(_, _, _, _)
lagFrom(rs, target, key, i) ==
  IF i < 1 THEN NullNum
  ELSE IF rs[i].t <= target THEN rs[i][key]
  ELSE lagFrom(rs, target, key, i - 1)
lagSkipNull(rs, hours, key) ==
  LET ok == {k \in 1..Len(rs) : rs[k].t <= rs[Len(rs)].t - hours * HourMs /\ ~rs[k][key].null}
  IN  IF ok = {} THEN NullNum ELSE rs[CHOOSE k \in ok : \A m \in ok : m <= k][key]
lag(rs, hours, key) ==
  IF Len(rs) = 0 THEN NullNum
  ELSE lagFrom(rs, rs[Len(rs)].t - hours * HourMs, key, Len(rs))

\* applyScaler(vec), the quotient taken as an integer
noScaling(vec) == vec
applyScaler(vec) ==
  IF SCALER.null THEN vec
  ELSE IF Len(SCALER.mean) # Len(vec) \/ Len(SCALER.scale) # Len(vec) THEN vec
  ELSE [i \in 1..Len(vec) |->
          (vec[i] - SCALER.mean[i]) \div (IF SCALER.scale[i] = 0 THEN 1 ELSE SCALER.scale[i])]

\* the feature map feats, as the value of each name (null when there is none)
featureOf(rs, refIso, name) ==
  LET n       == Len(rs)
      tempNow == IF n = 0 THEN NullNum ELSE rs[n].tC
      humNow  == IF n = 0 THEN NullNum ELSE rs[n].hPct
      dpNow   == IF ~tempNow.null /\ ~humNow.null
                 THEN N(dewpointC(tempNow.v, humNow.v)) ELSE NullNum
      hrBins  == hourBin4(refIso)
  IN  CASE name = "temperature"   -> tempNow
        [] name = "humidity"      -> humNow
        [] name = "dewpoint"      -> dpNow
        [] name = "td_spread"     -> IF ~tempNow.null /\ ~dpNow.null
                                     THEN N(tempNow.v - dpNow.v) ELSE NullNum
        [] name = "temp_mean_3h"  -> stats(sliceHours(rs, 3), "tC").mean
        [] name = "temp_min_3h"   -> stats(sliceHours(rs, 3), "tC").min
        [] name = "temp_max_3h"   -> stats(sliceHours(rs, 3), "tC").max
        [] name = "hum_mean_3h"   -> stats(sliceHours(rs, 3), "hPct").mean
        [] name = "hum_min_3h"    -> stats(sliceHours(rs, 3), "hPct").min
        [] name = "hum_max_3h"    -> stats(sliceHours(rs, 3), "hPct").max
        [] name = "temp_mean_6h"  -> stats(sliceHours(rs, 6), "tC").mean
        [] name = "temp_min_6h"   -> stats(sliceHours(rs, 6), "tC").min
        [] name = "temp_max_6h"   -> stats(sliceHours(rs, 6), "tC").max
        [] name = "hum_mean_6h"   -> stats(sliceHours(rs, 6), "hPct").mean
        [] name = "hum_min_6h"    -> stats(sliceHours(rs, 6), "hPct").min
        [] name = "hum_max_6h"    -> stats(sliceHours(rs, 6), "hPct").max
        [] name = "temp_mean_12h" -> stats(sliceHours(rs, 12), "tC").mean
        [] name = "temp_min_12h"  -> stats(sliceHours(rs, 12), "tC").min
        [] name = "temp_max_12h"  -> stats(sliceHours(rs, 12), "tC").max
        [] name = "hum_mean_12h"  -> stats(sliceHours(rs, 12), "hPct").mean
        [] name = "hum_min_12h"   -> stats(sliceHours(rs, 12), "hPct").min
        [] name = "hum_max_12h"   -> stats(sliceHours(rs, 12), "hPct").max
        [] name = "temp_lag_1h"   -> lag(rs, 1, "tC")
        [] name = "temp_lag_3h"   -> lag(rs, 3, "tC")
        [] name = "temp_lag_6h"   -> lag(rs, 6, "tC")
        [] name = "hum_lag_1h"    -> lag(rs, 1, "hPct")
        [] name = "hum_lag_3h"    -> lag(rs, 3, "hPct")
        [] name = "hum_lag_6h"    -> lag(rs, 6, "hPct")
        [] name = "hr_bin_0"      -> N(hrBins[1])
        [] name = "hr_bin_1"      -> N(hrBins[2])
        [] name = "hr_bin_2"      -> N(hrBins[3])
        [] name = "hr_bin_3"      -> N(hrBins[4])
        [] OTHER                  -> NullNum          \* feats[name] is undefined

noFit(vec) == vec
\* pad with 0 or cut to DIM values
fitToDim(vec) ==
  [i \in 1..DIM |-> IF i <= Len(vec) THEN vec[i] ELSE 0]

buildFeatureVectorFromWindow(rs, refIso) ==
  LET rawVec == [i \in 1..Len(FEATURE_NAMES) |->
                   LET x == featureOf(rs, refIso, FEATURE_NAMES[i])
                   IN  IF x.null THEN 0 ELSE x.v]            \* simple impute
  IN  fitToDim(applyScaler(rawVec))

\* ---------------------------------------------------------- buildBatches
\* the samples of arr within FORWARD_WINDOW_H hours of the last one
forwardWindow(arr) ==
  LET cutoff == arr[Len(arr)].t - FORWARD_WINDOW_H * HourMs
      w      == SelectSeq(arr, LAMBDA r : r.t >= cutoff)
  IN  IF Len(w) > 0 THEN w ELSE arr

\* new Date(last.t + horizonH*3600*1000).toISOString()
lastIsoOf(arr, hz) == arr[Len(arr)].iso
fwdIsoOf(arr, hz) == Iso(arr[Len(arr)].t + hz.v * HourMs)

\* the vector and the metadata record of one entry of by
vecOf(e, asForward, hz) ==
  IF ~asForward
  THEN buildFeatureVectorFromWindow(e.arr, e.arr[Len(e.arr)].iso)
  ELSE buildFeatureVectorFromWindow(forwardWindow(e.arr), fwdIsoOf(e.arr, hz))
metaOf(e, asForward, hz) ==
  [sensor  |-> e.sensor,
   timeIso |-> IF ~asForward THEN e.arr[Len(e.arr)].iso ELSE fwdIsoOf(e.arr, hz)]

RECURSIVE flat(_)
flat(vs) == IF vs = <<>> THEN <<>> ELSE Head(vs) \o flat(Tail(vs))

\* the metadata list in the order of the Map's entries
metasOf(by, asForward, hz) ==
  [i \in 1..Len(by) |-> metaOf(by[i], asForward, hz)]

\* buildBatches(docs, {asForward, hz}): the tensor and metas, or the
\* exception it throws
buildBatches(docs, asForward, hz) ==
  LET grouped == groupFrom(docs, 1, <<>>)
      by      == [i \in 1..Len(grouped) |->
                    [sensor |-> grouped[i].sensor, arr |-> sortByTime(grouped[i].arr)]]
      vecs    == [i \in 1..Len(by) |-> vecOf(by[i], asForward, hz)]
  IN  IF \E i \in 1..Len(docs) : pickTime(docs[i]).threw
      THEN Threw
      ELSE IF asForward /\ hz.nan /\ Len(by) > 0
      THEN Threw
      ELSE [threw |-> FALSE, dims |-> <<Len(vecs), DIM>>, data |-> flat(vecs),
            metas |-> metasOf(by, asForward, hz)]

\* ---------------------------------------------------------- extractProbs
\* -Infinity; like NaN it is not finite
MinusInfinity == [nan |-> TRUE, v |-> -1]
\* data[k] for the 0-based k: undefined past the end, which Number() and
\* Math.max() make NaN
At(data, k) == IF k + 1 \in 1..Len(data) THEN data[k + 1] ELSE NaN
\* Math.max(a, b)
MathMax(a, b) ==
  IF a = NaN \/ b = NaN THEN NaN
  ELSE IF a = MinusInfinity THEN b
  ELSE IF b = MinusInfinity THEN a
  ELSE IF a.v >= b.v THEN a ELSE b
RECURSIVE bestOf(_, _, _, _, _)
bestOf(data, i, C, j, best) ==
  IF j >= C THEN best ELSE bestOf(data, i, C, j + 1, MathMax(best, At(data, i * C + j)))
\* data.slice(0, n)
sliceTo(data, n) == SubSeq(data, 1, IF n < Len(data) THEN n ELSE Len(data))

\* /prob/i.test(n), over the output names of the model
HasProb(n) == n \in {"probabilities", "output_PROBability"}
\* names.find(...): the position of the first declared output among hits, 0
\* for undefined
FirstOf(hits) == IF hits = {} THEN 0 ELSE CHOOSE i \in hits : \A k \in hits : i <= k
firstOutput(ro) == ro[1].tensor
\* the output extractProbs reads: the first whose name has "prob", else the
\* first with dims of length 2, else names[0]
chooseOutput(ro) ==
  LET byName  == FirstOf({i \in 1..Len(ro) : HasProb(ro[i].name)})
      byShape == FirstOf({i \in 1..Len(ro) : Len(ro[i].tensor.dims) = 2})
  IN  IF byName # 0 THEN ro[byName].tensor
      ELSE IF byShape # 0 THEN ro[byShape].tensor
      ELSE ro[1].tensor

extractProbs(o) ==
  IF Len(o.dims) = 2
  THEN LET n == o.dims[1]
           C == o.dims[2]
       IN  IF C = 2 THEN [i \in 1..n |-> At(o.data, (i - 1) * 2 + 1)]
           ELSE IF C = 1 THEN sliceTo(o.data, n)
           ELSE [i \in 1..n |-> bestOf(o.data, i - 1, C, 0, MinusInfinity)]
  ELSE IF Len(o.dims) = 1
  THEN sliceTo(o.data, IF o.dims[1] = 0 THEN Len(o.data) ELSE o.dims[1])
  ELSE o.data

\* --------------------------------------------------------------- /predict
DEFAULT_FWD_HORIZON_H == 8

\* metas.map((m, i) => ...): one point per metadata record
pointsOf(metas, probs) ==
  [i \in 1..Len(metas) |->
     LET s == IF i <= Len(probs) THEN probs[i] ELSE NaN
     IN  [sensorName |-> metas[i].sensor, time |-> metas[i].timeIso,
          score |-> IF s.nan THEN JNull ELSE JNum(s.v)]]

ErrorResponse == [status |-> 500]
EmptyResponse(fw, hz) ==
  [status |-> 200, forward |-> fw, horizonHours |-> hz, featureCount |-> NullNum,
   count |-> 0, points |-> <<>>]
ScoredResponse(fw, hz, points) ==
  [status |-> 200, forward |-> fw, horizonHours |-> hz, featureCount |-> N(DIM),
   count |-> Len(points), points |-> points]

\* ------------------------------------------------------- request inputs
MaxDocs == 2
MaxSamples == 3
MaxOutputs == 2

Readings == {JNull, JNum(1)}
\* documents that differ in one thing at a time: the sensor, the field the time
\* comes from, the time, and the readings
DocAt(sid, tm, temp, hum) == Doc("", "", sid, "", "", EmptyStr, tm, EmptyStr, NoTs, temp, hum)
AllDocs ==
     {DocAt(sid, Iso(h * HourMs), JNum(1), JNum(50)) : sid \in {"s1", "s2"}, h \in {1, 5, 20}}
  \cup {DocAt("s1", tm, JNum(1), JNull) : tm \in {EmptyStr, Garbage}}
  \cup {DocAt("s1", Iso(HourMs), t, h) : t \in Readings, h \in Readings}
  \cup {Doc("", "", "s1", "", "", EmptyStr, EmptyStr, EmptyStr, ts, JNum(1), JNull) :
          ts \in {NoTs, TsAt(2 * HourMs), TsInvalid}}
  \cup {Doc("", "", "", "", "", Iso(3 * HourMs), Garbage, EmptyStr, NoTs, JNull, JNum(50)),
        Doc("d1", "", "s1", "", "", EmptyStr, EmptyStr, Iso(4 * HourMs), NoTs, JNum(1), JNull)}
  \cup {Doc("", sf, sid, dev, "x1", EmptyStr, Iso(6 * HourMs), EmptyStr, NoTs, JNum(1), JNull) :
          sf \in {"", "f1"}, sid \in {"", NumberZero}, dev \in {"", "n1"}}
DocLists == SeqsUpTo(AllDocs, MaxDocs)
Horizons == {Num(DEFAULT_FWD_HORIZON_H), NaN}

\* what session.run may resolve with for a tensor of n rows
\* a model that declares the one output "probabilities"
OneOutput(o) == <<[name |-> "probabilities", tensor |-> o]>>
ProbValues == {Num(20), Num(90), NaN}
TensorsFor(n) ==
  LET rowVals == [1..n -> ProbValues]
  IN     {[dims |-> <<n, 2>>,
           data |-> flat([i \in 1..n |-> <<Num(5), f[i]>>])] : f \in rowVals}
    \cup {[dims |-> <<n, 1>>, data |-> [i \in 1..n |-> f[i]]] : f \in rowVals}
    \cup {[dims |-> <<n>>, data |-> [i \in 1..n |-> f[i]]] : f \in rowVals}
    \cup {[dims |-> <<n, 3>>,
           data |-> flat([i \in 1..n |-> <<Num(5), f[i], Num(30)>>])] : f \in rowVals}
    \cup {[dims |-> <<n - 1, 2>>, data |-> flat([i \in 1..(n - 1) |-> <<Num(5), Num(90)>>])],
          [dims |-> <<n, 1, 1>>, data |-> [i \in 1..n |-> Num(90)]],
          [dims |-> <<n, 0>>, data |-> <<>>]}

\* ------------------------------------------------------------------ boot
\* what boot() reads: a file that is absent (or no JSON), or the parsed list
FeaturesFile(names) == [k |-> "json", names |-> names, mean |-> <<>>, scale |-> <<>>]
\* a scaler file whose mean and scale are arrays of numbers
ScalerFile(mean, scale) == [k |-> "json", names |-> <<>>, mean |-> mean, scale |-> scale]
\* a scaler file whose mean or scale is no array
ScalerNoArrays == [k |-> "noarrays", names |-> <<>>, mean |-> <<>>, scale |-> <<>>]

\* lists of 30, 36 and 40 names: the defaults from the last to the first, cut or
\* followed by names the assembler does not know
ExtraNames == [i \in 1..8 |-> "extra"]
Reversed(names) == [i \in 1..Len(names) |-> names[Len(names) + 1 - i]]
NamesOfLength(n) == SubSeq(Reversed(DEFAULT_FEATURES_36) \o ExtraNames, 1, n)
FeatureFiles == {NoFile} \cup {FeaturesFile(NamesOfLength(n)) : n \in {30, 36, 40}}
ScalerFiles ==
  {NoFile, ScalerNoArrays,
   ScalerFile([i \in 1..36 |-> 1], [i \in 1..36 |-> 2]),
   ScalerFile([i \in 1..32 |-> 1], [i \in 1..32 |-> IF i = 1 THEN 0 ELSE 2]),
   ScalerFile([i \in 1..36 |-> 1], [i \in 1..32 |-> 2])}

\* boot(): features.json is used when it lists exactly 36 names, the scaler
\* when it has both arrays, a scale of 0 made 1
Boot(ff, sf) ==
  /\ predict = "boot"
  /\ predict' = "idle"
  /\ FEATURE_NAMES' = IF ff.k = "json" /\ Len(ff.names) = 36 THEN ff.names
                      ELSE FEATURE_NAMES
  /\ SCALER' = IF sf.k = "json"
               THEN [null |-> FALSE, mean |-> sf.mean,
                     scale |-> [i \in 1..Len(sf.scale) |->
                                  IF sf.scale[i] = 0 THEN 1 ELSE sf.scale[i]]]
               ELSE SCALER
  /\ scalerFile' = sf
  /\ UNCHANGED <<rawItems, forward, horizonH, batch, scored, runOutput, response>>
  /\ UNCHANGED staVars

\* --------------------------------------------------------------- actions
\* GET /predict up to the end of await fetchTimeSeries()
PredictRequest(fw, hz, docs) ==
  /\ predict = "idle"
  /\ predict' = "fetched"
  /\ forward' = fw
  /\ horizonH' = hz
  /\ rawItems' = docs
  /\ batch' = NoBatch
  /\ scored' = NoTensor
  /\ runOutput' = <<>>
  /\ response' = NoResponse
  /\ UNCHANGED <<FEATURE_NAMES, SCALER, scalerFile>>
  /\ UNCHANGED staVars

\* fetchTimeSeries() throws: the catch block answers 500
FetchThrows(fw, hz) ==
  /\ predict = "idle"
  /\ predict' = "responded"
  /\ forward' = fw
  /\ horizonH' = hz
  /\ rawItems' = <<>>
  /\ batch' = NoBatch
  /\ scored' = NoTensor
  /\ runOutput' = <<>>
  /\ response' = ErrorResponse
  /\ UNCHANGED <<FEATURE_NAMES, SCALER, scalerFile>>
  /\ UNCHANGED staVars

\* buildBatches() and the handler up to await session.run()
Build ==
  /\ predict = "fetched"
  /\ batch' = buildBatches(rawItems, forward, horizonH)
  /\ IF batch'.threw
     THEN predict' = "responded" /\ response' = ErrorResponse
     ELSE IF batch'.dims[1] = 0
     THEN predict' = "responded" /\ response' = EmptyResponse(forward, horizonH)
     ELSE predict' = "scoring" /\ response' = response
  /\ UNCHANGED <<rawItems, forward, horizonH, scored, runOutput, FEATURE_NAMES, SCALER, scalerFile>>
  /\ UNCHANGED staVars

\* session.run() resolves with o: extractProbs and the response
ScoreReturns(ro) ==
  /\ predict = "scoring"
  /\ runOutput' = ro
  /\ scored' = chooseOutput(ro)
  /\ response' = ScoredResponse(forward, horizonH,
                                pointsOf(batch.metas, extractProbs(chooseOutput(ro))))
  /\ predict' = "responded"
  /\ UNCHANGED <<rawItems, forward, horizonH, batch, FEATURE_NAMES, SCALER, scalerFile>>
  /\ UNCHANGED staVars

\* session.run() rejects
ScoreThrows ==
  /\ predict = "scoring"
  /\ response' = ErrorResponse
  /\ predict' = "responded"
  /\ UNCHANGED <<rawItems, forward, horizonH, batch, scored, runOutput, FEATURE_NAMES, SCALER, scalerFile>>
  /\ UNCHANGED staVars

\* the prediction server with neither features.json nor scaler, on one request
NextBatch ==
  \/ Boot(NoFile, NoFile)
  \/ \E fw \in BOOLEAN, hz \in Horizons, docs \in DocLists : PredictRequest(fw, hz, docs)
  \/ \E fw \in BOOLEAN, hz \in Horizons : FetchThrows(fw, hz)
  \/ Build
  \/ \E o \in TensorsFor(batch.dims[1]) : ScoreReturns(OneOutput(o))
  \/ ScoreThrows

SpecBatch == InitSta /\ [][NextBatch]_vars

\* ------------------------------------------------------- batch builder
\* buildBatches has run on the request's documents
Built == batch # NoBatch
\* the request's horizon is a number, so that the forecast instant exists
HorizonGiven == ~(forward /\ horizonH.nan)

\* the instant a document's timestamp resolves to: the first present of the
\* configured time field, time and iso, else the numeric ts
ResolvedInstant(doc) ==
  IF Truthy(doc.tf) THEN DateParse(doc.tf)
  ELSE IF Truthy(doc.time) THEN DateParse(doc.time)
  ELSE IF Truthy(doc.iso) THEN DateParse(doc.iso)
  ELSE IF doc.ts.k = "instant" THEN Num(doc.ts.ms)
  ELSE NaN
HasReading(doc) == ~extractTempHum(doc).t.null \/ ~extractTempHum(doc).h.null
Contributes(doc) == ~ResolvedInstant(doc).nan /\ HasReading(doc)
ContributingSensors ==
  {pickSensor(rawItems[i]) : i \in {j \in 1..Len(rawItems) : Contributes(rawItems[j])}}

\* the series of one sensor: its contributing documents in time order
SeriesOf(sid) ==
  LET own == SelectSeq(rawItems, LAMBDA d : Contributes(d) /\ pickSensor(d) = sid)
  IN  sortByTime([i \in 1..Len(own) |-> sampleOf(own[i])])
RowOf(i) == SubSeq(batch.data, (i - 1) * DIM + 1, i * DIM)

\* C9: for any list of documents and either mode the builder gives exactly one
\* matrix row and one metadata record per sensor with a retained sample, row i
\* is the vector built from the series of metadata i's sensor, and the scoring
\* response pairs probability i with metadata i's sensor and target time
C9_RowsMatchMetas ==
  (Built /\ HorizonGiven) =>
     /\ ~batch.threw
     /\ batch.dims = <<Len(batch.metas), DIM>>
     /\ Len(batch.data) = Len(batch.metas) * DIM
     /\ {batch.metas[i].sensor : i \in 1..Len(batch.metas)} = ContributingSensors
     /\ Len(batch.metas) = Cardinality(ContributingSensors)
     /\ \A i \in 1..Len(batch.metas) :
          LET e == [sensor |-> batch.metas[i].sensor,
                    arr |-> SeriesOf(batch.metas[i].sensor)]
          IN  RowOf(i) = vecOf(e, forward, horizonH)
     /\ (scored # NoTensor /\ response.status = 200) =>
          /\ response.count = Len(batch.metas)
          /\ \A i \in 1..Len(batch.metas) :
               LET probs == extractProbs(scored)
               IN  /\ response.points[i].sensorName = batch.metas[i].sensor
                   /\ response.points[i].time = batch.metas[i].timeIso
                   /\ i <= Len(probs) /\ ~probs[i].nan
                        => response.points[i].score = JNum(probs[i].v)

\* C10: a document contributes a sample only if its timestamp resolves to a
\* valid instant and it has a temperature or a humidity; any other document is
\* dropped silently, without an error and without failing the batch
C10_BadDocumentsDropped ==
  (Built /\ HorizonGiven) =>
     /\ ~batch.threw
     /\ response.status = 500 => batch.dims[1] > 0     \* only the scorer fails it
     /\ {batch.metas[i].sensor : i \in 1..Len(batch.metas)} = ContributingSensors

\* the prediction server under every configuration boot() can read, up to the
\* tensor a request builds
\* documents for the key search: a nested sub-document or none, and root keys
\* spelled in several ways, holding a number, a string or null
KeyObjects ==
  {NoObject,
   Obj(<< <<"Temperature", JNum(5)>> >>),
   Obj(<< <<"temperature", JNull>> >>),
   Obj(<< <<"HUM SHT", JNum(50)>>, <<"temp", JText>> >>)}
KeyRoots ==
  {<< >>,
   << <<"temperature", JNum(9)>>, <<"humidity", JNum(60)>> >>,
   << <<"tempc-sht", JNum(9)>>, <<"RH", JNum(40)>> >>,
   << <<"temp", JNum(7)>>, <<"Humidity", JNull>>, <<"rh", JNum(40)>> >>,
   << <<"temperature", JText>>, <<"temp_c", JNum(3)>> >>}
KeyDocs ==
  {DocOf("", "", "s1", "", "", EmptyStr, Iso(HourMs), EmptyStr, NoTs, o, r) :
     o \in KeyObjects, r \in KeyRoots}
NextKeys ==
  \/ Boot(NoFile, NoFile)
  \/ \E docs \in SeqsUpTo(KeyDocs, MaxDocs) :
       PredictRequest(FALSE, Num(DEFAULT_FWD_HORIZON_H), docs)
  \/ Build

SpecKeys == InitSta /\ [][NextKeys]_vars

\* the documents of one sensor over a day, some of them without a temperature,
\* and one of another sensor; a request carries up to MaxSamples of them in any
\* order
SeriesHours == {0, 5, 8, 14}
SeriesDocs ==
     {DocAt("s1", Iso(h * HourMs), JNum(h + 1), JNum(50 + h)) : h \in SeriesHours}
  \cup {DocAt("s1", Iso(8 * HourMs), JNull, JNum(40)),
        DocAt("s2", Iso(20 * HourMs), JNum(1), JNum(50))}
NextSeries ==
  \/ Boot(NoFile, NoFile)
  \/ \E fw \in BOOLEAN, hz \in Horizons, docs \in SeqsUpTo(SeriesDocs, MaxSamples) :
       PredictRequest(fw, hz, docs)
  \/ Build

SpecSeries == InitSta /\ [][NextSeries]_vars

\* the outputs a model may declare: up to MaxOutputs outputs of distinct names,
\* each a tensor of n rows of its own shape and values
OutputNames == {"label", "variable", "probabilities", "output_PROBability"}
ShapesFor(n) ==
  {[dims |-> <<n, 2>>, data |-> flat([i \in 1..n |-> <<Num(5), Num(90)>>])],
   [dims |-> <<n, 1>>, data |-> [i \in 1..n |-> Num(60)]],
   [dims |-> <<n>>, data |-> [i \in 1..n |-> Num(20)]],
   [dims |-> <<n, 1, 1>>, data |-> [i \in 1..n |-> Num(30)]]}
RunOutputs(n) ==
  {ro \in SeqsUpTo([name : OutputNames, tensor : ShapesFor(n)], MaxOutputs) :
     /\ ro # <<>>
     /\ \A i \in 1..Len(ro), k \in 1..Len(ro) : ro[i].name = ro[k].name => i = k}
OutputDocs ==
  {<<DocAt("s1", Iso(HourMs), JNum(1), JNum(50))>>,
   <<DocAt("s1", Iso(HourMs), JNum(1), JNum(50)), DocAt("s2", Iso(HourMs), JNum(2), JNull)>>}
NextOutputs ==
  \/ Boot(NoFile, NoFile)
  \/ \E docs \in OutputDocs : PredictRequest(FALSE, Num(DEFAULT_FWD_HORIZON_H), docs)
  \/ Build
  \/ \E ro \in RunOutputs(batch.dims[1]) : ScoreReturns(ro)

SpecOutputs == InitSta /\ [][NextOutputs]_vars

BootDocs ==
  {DocAt("s1", Iso(HourMs), JNum(1), JNum(50)), DocAt("s1", Iso(5 * HourMs), JNum(3), JNull),
   DocAt("s2", Iso(20 * HourMs), JNull, JNum(50)), DocAt("s2", Garbage, JNum(1), JNum(50))}
NextBoot ==
  \/ \E ff \in FeatureFiles, sf \in ScalerFiles : Boot(ff, sf)
  \/ \E fw \in BOOLEAN, hz \in Horizons, docs \in SeqsUpTo(BootDocs, MaxDocs) :
       PredictRequest(fw, hz, docs)
  \/ Build

SpecBoot == InitSta /\ [][NextBoot]_vars

\* ------------------------------------------------------------ assembler
\* C11: every feature vector the assembler returns has exactly 36 values and
\* the batch matrix holds exactly 36 values per row, whatever feature-name list
\* and scaler were configured
C11_VectorLength36 ==
  (Built /\ ~batch.threw) =>
     /\ batch.dims[2] = 36
     /\ Len(batch.data) = 36 * batch.dims[1]
     /\ \A i \in 1..Len(batch.metas) :
          LET e == [sensor |-> batch.metas[i].sensor,
                    arr |-> SeriesOf(batch.metas[i].sensor)]
          IN  Len(vecOf(e, forward, horizonH)) = 36

\* a tensor of two rows built from the 32 default names (padded) with a scaler
\* applied
C11_PaddedScaledRows ==
  /\ Built /\ ~batch.threw
  /\ batch.dims[1] = 2
  /\ Len(FEATURE_NAMES) = 32
  /\ ~SCALER.null /\ Len(SCALER.mean) = 32 /\ Len(SCALER.scale) = 32

\* ------------------------------------------------------ scoring adapter
\* the number of values a tensor of these dims holds
RECURSIVE SizeOf(_)
SizeOf(dims) == IF dims = <<>> THEN 1 ELSE Head(dims) * SizeOf(Tail(dims))
\* the maximum of the values of a row (NaN as soon as one of them is NaN)
RowMax(vals) ==
  IF \E j \in 1..Len(vals) : vals[j].nan THEN NaN
  ELSE CHOOSE x \in Range(vals) : \A j \in 1..Len(vals) : x.v >= vals[j].v
\* the probabilities the specification reads out of a tensor
SpecProbs(o) ==
  LET n == o.dims[1]
  IN  IF Len(o.dims) = 2 /\ o.dims[2] = 2 THEN [i \in 1..n |-> o.data[2 * i]]
      ELSE IF Len(o.dims) = 2 /\ o.dims[2] = 1 THEN [i \in 1..n |-> o.data[i]]
      ELSE IF Len(o.dims) = 2 /\ o.dims[2] > 2
      THEN [i \in 1..n |->
              RowMax(SubSeq(o.data, (i - 1) * o.dims[2] + 1, i * o.dims[2]))]
      ELSE IF Len(o.dims) = 1 THEN [i \in 1..n |-> o.data[i]]
      ELSE o.data

\* C12: the adapter returns one probability per row in row order: column 1 for
\* shape [N,2], the single column for [N,1], the row maximum for [N,C] with
\* C > 2, the scalars for [N], and the raw data for any other shape
C12_ProbabilityPerRow ==
  (scored # NoTensor /\ Len(scored.data) = SizeOf(scored.dims)) =>
     extractProbs(scored) = SpecProbs(scored)

\* C13: when no document yields a sample the matrix has zero rows and the
\* request is answered 200 with forward, horizonHours, featureCount 36, count 0
\* and no points, the scoring function not called
C13_EmptyBatchAnswers ==
  (Built /\ ContributingSensors = {}) =>
     /\ ~batch.threw
     /\ batch.dims[1] = 0
     /\ scored = NoTensor
     /\ predict = "responded"
     /\ response.status = 200
     /\ response.forward = forward
     /\ response.horizonHours = horizonH
     /\ response.featureCount = N(36)
     /\ response.count = 0
     /\ response.points = <<>>

\* --------------------------------------------------------------- cadence
\* C14: the first cycle starts at process start, before an interval has passed,
\* and one more cycle starts at every interval tick after it
C14_CycleAtStartAndEveryTick ==
  /\ cycle[1] # "idle"
  /\ \A c \in Cycles : cycle[c] # "idle" <=> c <= now + 1

C14_SecondCycleAtFirstTick ==
  /\ now = 1
  /\ cycle[1] = "polling"
  /\ cycle[2] = "polling"

\* --------------------------------------------------------- deduplication
\* C15: a Decision whose time is empty or unparsable is compared as instant 0:
\* when a sensor's rows hold such a Decision and one with a parsable time after
\* instant 0, the published Decision of the sensor is one with a parsable time,
\* whichever arrived first
C15_UnparsableTimeIsInstantZero ==
  Succeeded =>
    \A i, j \in 1..Len(items) :
      (/\ items[i].sensorName = items[j].sensorName
       /\ items[i].time.s # "iso"
       /\ items[j].time.s = "iso" /\ items[j].time.ms > 0) =>
         \A k \in 1..Len(Snapshot.items) :
           Snapshot.items[k].sensorName = items[i].sensorName =>
             Snapshot.items[k].time.s = "iso" /\ Snapshot.items[k].time.ms > 0

\* the observers of one connection, status queries and page requests among
\* poll cycles that may overlap
NextReaders ==
  \/ \E c \in Cycles : IntervalTick(c)
  \/ \E c \in Cycles, resp \in HubResponses, F \in SUBSET Range(clients) :
       FetchSettles(c, resp, F)
  \/ Connect(1, FALSE)
  \/ SocketCloses(1)
  \/ OnClose(1)
  \/ StatusQuery
  \/ PageRequest

SpecReaders == InitSta /\ [][NextReaders]_vars

\* ------------------------------------------------------------- snapshot
\* the events a step adds to the wire of observer k
NewEvents(k) == SubSeq(wire'[k], Len(wire[k]) + 1, Len(wire'[k]))
\* STATE as the completion of one cycle writes it from its response
WrittenBy(resp, old) ==
  IF resp.kind \in {"reject", "status", "notjson"}
  THEN [old EXCEPT !.lastRunAt = toIso(now),
                   !.error = ErrorOf(errorText(Thrown(resp))),
                   !.items = <<>>]
  ELSE [old EXCEPT !.lastRunAt = toIso(now),
                   !.error = NoError,
                   !.items = sortBySensor(latestBySensor(mapRows(resp.points)))]

\* C16: the Snapshot is replaced atomically: whenever it changes, lastRunAt,
\* error and items are all those of the one cycle that completes in that step,
\* and what a reader gets (status response, page, "snapshot" or "update" event)
\* is the whole Snapshot as it stands at that step, never a mix of two cycles
C16_SnapshotReplacedWhole ==
  [][ /\ Snapshot' # Snapshot =>
           /\ lastCycle' \in Cycles
           /\ cycle[lastCycle'] = "polling" /\ cycle'[lastCycle'] = "published"
           /\ Snapshot' = WrittenBy(lastResp', Snapshot)
      /\ \A k \in Conns : \A i \in 1..Len(NewEvents(k)) :
           NewEvents(k)[i].data = ssePayload(Snapshot')
      /\ lastRead' # lastRead =>
           \/ lastRead'.kind = "status" /\ lastRead'.body = statusBody(Snapshot')
           \/ lastRead'.kind = "page" /\ lastRead'.body = renderPage(Snapshot')
    ]_vars

\* an observer that connected between two completions has a "snapshot" event
\* of the first and an "update" event of the second, a failure, and the status
\* was read after the second
C16_ReadersAcrossCycles ==
  /\ Len(wire[1]) = 2
  /\ wire[1][1].pub = 1 /\ wire[1][1].data.items # <<>>
  /\ wire[1][2].pub = 2 /\ ~wire[1][2].data.error.null
  /\ lastRead.kind = "status" /\ lastRead.pub = 2
  /\ cycle[1] = "published" /\ cycle[2] = "published"

\* ------------------------------------------------------------- overlap
\* C17: cycles are not serialized: a cycle in flight stays in flight when
\* another starts or completes, and after every completion the Snapshot holds
\* the result of the cycle that completed last, also when that cycle started
\* before one that had already published
C17_LastCompletionWins ==
  /\ [](  (lastCycle # 0 /\ cycle[lastCycle] = "published") =>
            /\ Snapshot.error = WrittenBy(lastResp, Snapshot).error
            /\ Snapshot.items = WrittenBy(lastResp, Snapshot).items )
  /\ [][ \A c \in Cycles :
           (cycle[c] = "polling" /\ cycle'[c] # "polling") =>
              /\ lastCycle' = c
              /\ \A d \in Cycles \ {c} : cycle'[d] = cycle[d]
       ]_vars

\* the boot cycle completes after the second cycle has published a failure, and
\* its rows replace that result
C17_OlderCycleOverwrites ==
  /\ lastCycle = 1
  /\ cycle[1] = "published" /\ cycle[2] = "published"
  /\ lastResp.kind = "points"
  /\ prevItems = <<>>
  /\ Snapshot.items # <<>> /\ Snapshot.error.null

\* ---------------------------------------------------------- single writer
\* C18: only the completion of a poll cycle changes the Snapshot, and it changes
\* only lastRunAt, error and items: a connect, a disconnect, a status query, a
\* page request and a broadcast leave every field as it is, and forward and
\* horizonHours keep their start-up values
C18_SingleWriter ==
  /\ [](Snapshot.forward = CFG_FORWARD /\ Snapshot.horizonHours = HORIZON_HOURS)
  /\ [][ /\ Snapshot' # Snapshot =>
              \E c \in Cycles : cycle[c] = "polling" /\ cycle'[c] = "published"
         /\ pubCount' # pubCount => lastBroadcast'.payload = ssePayload(Snapshot')
       ]_vars

\* a publication, then a connect, a disconnect and a page request, the Snapshot
\* still the published one
C18_ReadersLeftSnapshot ==
  /\ pubCount = 1
  /\ ~Snapshot.lastRunAt.null
  /\ lastBroadcast.payload = ssePayload(Snapshot)
  /\ transport[1] = "reported" /\ wire[1] # <<>> /\ wire[1][1].pub = 1
  /\ lastRead.kind = "page" /\ lastRead.pub = 1

\* ------------------------------------------------------- sensor identity
\* the identity the specification gives a document: the first field that is
\* present
SpecSensor(doc) ==
  IF doc.deviceInfoName # "" THEN doc.deviceInfoName
  ELSE IF doc.sf # "" THEN doc.sf
  ELSE IF doc.sensorId # "" THEN doc.sensorId
  ELSE IF doc.deviceName # "" THEN doc.deviceName
  ELSE IF doc.id # "" THEN doc.id
  ELSE "unknown"

\* C19: the sensor of a document is the first present of the nested device
\* name, the configured sensor field, sensorId, deviceName and the document id,
\* and "unknown" when it has none: the series built are those of these
\* identities, the documents without identity in the one series "unknown"
C19_FirstPresentIdentity ==
  (Built /\ ~batch.threw) =>
     {batch.metas[i].sensor : i \in 1..Len(batch.metas)} =
       {SpecSensor(rawItems[i]) : i \in {j \in 1..Len(rawItems) : Contributes(rawItems[j])}}

\* ------------------------------------------------------------ key search
\* a key of the sub-document o is the candidate name, compared without case
\* and punctuation
KeyMatches(o, name) ==
  o.isObject /\ \E i \in 1..Len(o.entries) : normKey(o.entries[i][1]) = normKey(name)
ValueAt(o, name) ==
  o.entries[CHOOSE i \in 1..Len(o.entries) :
              /\ normKey(o.entries[i][1]) = normKey(name)
              /\ \A k \in 1..(i - 1) : normKey(o.entries[k][1]) # normKey(name)][2]
\* the value the specification resolves: that of the first candidate name with
\* a match, the nested match before the root's
SpecFirstMatch(doc, names) ==
  LET hits == {i \in 1..Len(names) :
                 KeyMatches(doc.object, names[i]) \/ KeyMatches(doc.root, names[i])}
      first == CHOOSE i \in hits : \A k \in hits : i <= k
  IN  IF hits = {} THEN JUndefined
      ELSE IF KeyMatches(doc.object, names[first]) THEN ValueAt(doc.object, names[first])
      ELSE ValueAt(doc.root, names[first])
\* the number of a value: null when it is absent, null or not finite
SpecNumber(v) ==
  IF v.j = "number" THEN N(v.v) ELSE NullNum
SpecTempHum(doc) ==
  [t |-> SpecNumber(SpecFirstMatch(doc, TempKeys)),
   h |-> SpecNumber(SpecFirstMatch(doc, HumKeys))]
\* a missing feature value is 0 in the vector
ValueInRow(x) == IF x.null THEN 0 ELSE x.v

\* C20: temperature and humidity are each the value of the first candidate key
\* name that matches, keys compared without case and punctuation, the nested
\* "object" before the root, made a number or null: a request of one document
\* yields no row when both are null, and else one row that begins with them
C20_FirstMatchNestedFirst ==
  (Built /\ ~batch.threw /\ Len(rawItems) = 1) =>
     LET sp == SpecTempHum(rawItems[1])
     IN  IF sp.t.null /\ sp.h.null THEN batch.dims[1] = 0
         ELSE /\ batch.dims[1] = 1
              /\ batch.data[1] = ValueInRow(sp.t)
              /\ batch.data[2] = ValueInRow(sp.h)

\* ------------------------------------------------------ windows and lags
\* the rows the assembler is given for row i of the batch: the sensor's series,
\* in forecast mode its samples of the forward window
RowsGiven(i) ==
  IF forward THEN forwardWindow(SeriesOf(batch.metas[i].sensor))
  ELSE SeriesOf(batch.metas[i].sensor)
Sorted(rs) == \A i \in 1..Len(rs), k \in 1..Len(rs) : i <= k => rs[i].t <= rs[k].t
Anchor(rs) == rs[Len(rs)]
\* the samples of the last h hours before the anchor
SpecWindow(rs, h) == SelectSeq(rs, LAMBDA r : r.t >= Anchor(rs).t - h * HourMs)
Widths == {0, 1, 3, 6, 12, 24}
\* the position of a feature in the default order
TEMP_MIN_3H == 6
TEMP_MAX_6H == 13

\* C21: for every sorted series and every width h, sliceHours(h) is a suffix of
\* the series that ends with its anchor and holds exactly the samples with a
\* timestamp >= anchor.timestamp - h*3600000; it is empty for an empty series.
\* The 3 h minimum and the 6 h maximum of a row are those of these samples
C21_WindowIsSuffix ==
  /\ \A h \in Widths : sliceHours(<<>>, h) = <<>>
  /\ (Built /\ ~batch.threw) =>
       \A i \in 1..Len(batch.metas) :
          LET rs == RowsGiven(i)
          IN  /\ Sorted(rs) /\ rs # <<>>
              /\ \A h \in Widths :
                   LET w == sliceHours(rs, h)
                   IN  /\ \E k \in 1..Len(rs) : w = SubSeq(rs, k, Len(rs))
                       /\ w = SpecWindow(rs, h)
                       /\ w[Len(w)] = Anchor(rs)
              /\ RowOf(i)[TEMP_MIN_3H] = ValueInRow(stats(SpecWindow(rs, 3), "tC").min)
              /\ RowOf(i)[TEMP_MAX_6H] = ValueInRow(stats(SpecWindow(rs, 6), "tC").max)

\* a series of three samples given out of order, of which the last two are
\* within 3 hours of the anchor and the first is not
C21_ProperSuffix ==
  /\ Built /\ ~batch.threw /\ ~forward
  /\ Len(batch.metas) = 1
  /\ Len(rawItems) = 3 /\ DateParse(rawItems[1].time).v > DateParse(rawItems[2].time).v
  /\ Len(RowsGiven(1)) = 3
  /\ Len(sliceHours(RowsGiven(1), 3)) = 2
  /\ RowOf(1)[TEMP_MIN_3H] = 6

\* the value hours before the anchor: that of the latest sample at or before
\* anchor.timestamp - hours*3600000, null when there is no such sample or when
\* that sample has no value
SpecLag(rs, hours, field) ==
  LET old == {k \in 1..Len(rs) : rs[k].t <= Anchor(rs).t - hours * HourMs}
  IN  IF old = {} THEN NullNum
      ELSE rs[CHOOSE k \in old : \A m \in old : m <= k][field]
Lags == {0, 1, 3, 6, 12}
TEMP_LAG_1H == 23
TEMP_LAG_6H == 25
HUM_LAG_6H  == 28

\* C22: for every sorted series, lag(hours, field) is the field value of the
\* latest sample whose timestamp is <= anchor.timestamp - hours*3600000, and
\* null when there is no such sample or when that sample's value is null: an
\* older sample is never used instead.  The lag features of a row are these
\* values
C22_LagIsLatestAtOrBefore ==
  /\ \A hours \in Lags : lag(<<>>, hours, "tC") = NullNum
  /\ (Built /\ ~batch.threw) =>
       \A i \in 1..Len(batch.metas) :
          LET rs == RowsGiven(i)
          IN  /\ \A hours \in Lags, field \in {"tC", "hPct"} :
                   lag(rs, hours, field) = SpecLag(rs, hours, field)
              /\ RowOf(i)[TEMP_LAG_1H] = ValueInRow(SpecLag(rs, 1, "tC"))
              /\ RowOf(i)[TEMP_LAG_6H] = ValueInRow(SpecLag(rs, 6, "tC"))
              /\ RowOf(i)[HUM_LAG_6H] = ValueInRow(SpecLag(rs, 6, "hPct"))

\* the sample 6 hours before the anchor has a humidity and no temperature, an
\* older sample has a temperature: the temperature lag is null (0 in the row)
C22_NullIsNotReplaced ==
  /\ Built /\ ~batch.threw /\ ~forward
  /\ Len(batch.metas) = 1
  /\ LET rs == RowsGiven(1)
     IN  /\ Len(rs) = 3
         /\ rs[2].t = rs[3].t - 6 * HourMs
         /\ rs[2].tC.null /\ ~rs[1].tC.null
  /\ RowOf(1)[TEMP_LAG_6H] = 0
  /\ RowOf(1)[HUM_LAG_6H] = 40

\* ------------------------------------------------------ output selection
\* the outputs the priority order allows: those whose name contains "prob",
\* else those of a 2-dimensional shape, else the first declared
SpecOutputChoices(ro) ==
  LET named == {i \in 1..Len(ro) : HasProb(ro[i].name)}
      twoD  == {i \in 1..Len(ro) : Len(ro[i].tensor.dims) = 2}
  IN  IF named # {} THEN {ro[i].tensor : i \in named}
      ELSE IF twoD # {} THEN {ro[i].tensor : i \in twoD}
      ELSE {ro[1].tensor}

\* C23: the scoring adapter reads an output whose name contains "prob" (in any
\* case); when there is none, an output of a 2-dimensional shape; when there is
\* none either, the first declared output; the response's probabilities are
\* taken from that output
C23_OutputPriority ==
  (predict = "responded" /\ runOutput # <<>>) =>
     /\ scored \in SpecOutputChoices(runOutput)
     /\ response.status = 200
     /\ response.points = pointsOf(batch.metas, extractProbs(scored))

\* the first declared output is 2-dimensional and the second, of one
\* dimension, is named with PROB: the second is read
C23_NameBeforeShape ==
  /\ predict = "responded" /\ Len(runOutput) = 2
  /\ ~HasProb(runOutput[1].name) /\ Len(runOutput[1].tensor.dims) = 2
  /\ runOutput[2].name = "output_PROBability" /\ Len(runOutput[2].tensor.dims) = 1
  /\ scored = runOutput[2].tensor
  /\ response.points[1].score = JNum(20)

\* ------------------------------------------------------------- scaling
\* the vector before scaling: the value of each configured name, 0 when it has
\* none
RawVec(i) ==
  [k \in 1..Len(FEATURE_NAMES) |->
     ValueInRow(featureOf(RowsGiven(i), batch.metas[i].timeIso, FEATURE_NAMES[k]))]
\* a scaler is configured when the file gives both arrays
Configured(f) == f.k = "json"
SpecScaled(x, f) ==
  IF ~Configured(f) \/ Len(f.mean) # Len(x) \/ Len(f.scale) # Len(x) THEN x
  ELSE [k \in 1..Len(x) |->
          (x[k] - f.mean[k]) \div (IF f.scale[k] = 0 THEN 1 ELSE f.scale[k])]
Padded(x) == [k \in 1..DIM |-> IF k <= Len(x) THEN x[k] ELSE 0]

\* C24: applyScaler returns its input unchanged when no scaler is configured or
\* when the length of mean or of scale differs from the vector's; otherwise
\* element i of the result is (x[i] - mean[i]) / scale[i], a scale of 0 taken
\* as 1.  Every row of the batch is that result, padded
C24_ScalerAppliedOrNoOp ==
  (Built /\ ~batch.threw) =>
     \A i \in 1..Len(batch.metas) :
        /\ applyScaler(RawVec(i)) = SpecScaled(RawVec(i), scalerFile)
        /\ RowOf(i) = Padded(SpecScaled(RawVec(i), scalerFile))

\* a scaler of the vector's length whose first scale is 0: the temperature 3
\* becomes (3 - 1) / 1
C24_ZeroScaleIsOne ==
  /\ Built /\ ~batch.threw /\ Len(batch.metas) = 1
  /\ Configured(scalerFile)
  /\ Len(scalerFile.mean) = Len(FEATURE_NAMES) /\ Len(scalerFile.scale) = Len(FEATURE_NAMES)
  /\ scalerFile.scale[1] = 0 /\ scalerFile.mean[1] = 1
  /\ RawVec(1)[1] = 3
  /\ RowOf(1)[1] = 2

\* ------------------------------------------------------- hour encoding
\* the reference instant of row i: the last sample's timestamp, in forecast
\* mode plus horizonHours
RefInstant(i) ==
  LET last == Anchor(SeriesOf(batch.metas[i].sensor)).t
  IN  IF forward THEN last + horizonH.v * HourMs ELSE last
UtcHour(ms) == (ms \div HourMs) % 24
HR_BIN_0 == 29

\* C25: exactly one of the four hour buckets of a row is 1, the one at index
\* floor(UTC hour / 6) of the reference instant, which is the anchor sample's
\* timestamp in nowcast mode and the last sample's timestamp plus horizonHours
\* in forecast mode; the target time of the row's metadata is that instant
C25_HourBucketOfReference ==
  (Built /\ ~batch.threw) =>
     \A i \in 1..Len(batch.metas) :
        LET bin == UtcHour(RefInstant(i)) \div 6
        IN  /\ bin \in 0..3
            /\ \A k \in 0..3 : RowOf(i)[HR_BIN_0 + k] = IF k = bin THEN 1 ELSE 0
            /\ Cardinality({k \in 0..3 : RowOf(i)[HR_BIN_0 + k] = 1}) = 1
            /\ DateParse(batch.metas[i].timeIso) = Num(RefInstant(i))

\* a forecast of 8 hours from a last sample at 20:00: the reference is 04:00 of
\* the next day, bucket 0, where the sample's own hour is in bucket 3
C25_ForecastPastMidnight ==
  /\ Built /\ ~batch.threw /\ forward /\ horizonH = Num(8)
  /\ Len(batch.metas) = 1
  /\ UtcHour(Anchor(SeriesOf(batch.metas[1].sensor)).t) = 20
  /\ batch.metas[1].timeIso = Iso(28 * HourMs)
  /\ RowOf(1)[HR_BIN_0] = 1 /\ RowOf(1)[HR_BIN_0 + 3] = 0

====
